---------------------------- MODULE Spec2Model ----------------------------
(***************************************************************************)
(* Model of btcutil.Tx (tx.go): a handle around a decoded btcwire.MsgTx    *)
(* that memoizes the transaction hash on first access and carries the      *)
(* position of the transaction within a block.                             *)
(*                                                                         *)
(* Pointers are modelled as addresses into separately modelled memory, so  *)
(* that the record behind Tx.msgTx can change under the handle while the   *)
(* handle's own fields stay what they were.                                *)
(***************************************************************************)
EXTENDS Integers, Sequences, FiniteSets, TLC

\* ------------------------------------------------------------------ bounds
MaxByte      == 1   \* a byte of the wire format is 0..MaxByte
MaxLen       == 3   \* longest byte slice handed to NewTxFromBytes
MaxIndex     == 2   \* SetIndex arguments are -MaxIndex..MaxIndex
MaxShaCalls  == 3   \* Sha calls made on the handle
MaxMutations == 1   \* writes the caller makes through the *MsgTx
HashSpace    == 4   \* a ShaHash is 0..HashSpace-1
MaxOverlap   == 2   \* Sha calls in flight at once, one per goroutine

\* -------------------------------------------------------- program constants
TxIndexUnknown == -1

NilPtr    == "nil"       \* the nil pointer
TxAddr    == "&Tx"       \* address of the Tx the constructors allocate
MsgTxAddr == "&MsgTx"    \* address of the btcwire.MsgTx behind Tx.msgTx
ShaAddr   == "&sha"      \* address of Sha's escaping local `sha`
NoErr     == "nil"       \* the nil error
ZeroSha   == 0           \* the zero value of btcwire.ShaHash

Byte    == 0..MaxByte
Indexes == -MaxIndex..MaxIndex

\* Every byte slice of length at most n.
SeqsUpTo(n) == UNION {[1..k -> Byte] : k \in 0..n}

\* A btcwire.MsgTx, reduced to a version and a counted list of items.
MsgTxs == {[version |-> v, items |-> s] :
             v \in Byte, s \in {x \in SeqsUpTo(MaxLen - 2) : Len(x) <= MaxByte}}

\* ----------------------------------------------------- external collaborators
\* btcwire.MsgTx.Serialize: version, item count, items.
Serialize(m) == <<m.version, Len(m.items)>> \o m.items

\* btcwire.MsgTx.Deserialize over bytes.NewBuffer(b): reads the header, then
\* as many items as the count says; bytes after the last item are not read.
Deserialize(b) ==
    IF Len(b) = 0
    THEN [msgTx |-> [version |-> 0, items |-> <<>>], err |-> "EOF"]
    ELSE IF Len(b) < 2 \/ Len(b) < 2 + b[2]
    THEN [msgTx |-> [version |-> 0, items |-> <<>>], err |-> "unexpected EOF"]
    ELSE [msgTx |-> [version |-> b[1], items |-> SubSeq(b, 3, 2 + b[2])],
          err |-> NoErr]

\* btcwire.DoubleSha256, reduced to a position-weighted checksum.
RECURSIVE DoubleSha256(_)
DoubleSha256(b) ==
    IF Len(b) = 0 THEN 1
    ELSE (DoubleSha256(SubSeq(b, 1, Len(b) - 1)) * 3 + b[Len(b)] + Len(b)) % HashSpace

\* The ShaHash btcwire.MsgTx.TxSha returns for m.
TxShaOf(m) == DoubleSha256(Serialize(m))

\* The errors TxSha's second result may carry.
TxShaErrs == {NoErr, "ErrTxSha"}

\* ------------------------------------------------------------------- state
VARIABLES
    t,            \* the *Tx the caller holds: NilPtr until a constructor succeeds
    tx,           \* the Tx struct at TxAddr
    msgTxMem,     \* the btcwire.MsgTx at MsgTxAddr
    shaMem,       \* the btcwire.ShaHash at ShaAddr
    callerMsgTx,  \* whether the caller holds a *MsgTx to msgTxMem
    ret,          \* the last call: operation, argument, result, error
    shaReturns,   \* history: the hash behind each pointer Sha has returned
    txShaLog,     \* history: every result pair of a TxSha invocation
    lastSetIndex, \* history: <<i>> for the latest SetIndex(i), else <<>>
    mutations,    \* history: number of caller writes through pointers it holds
    calls,        \* the Sha calls running on goroutines of their own
    txShaHist     \* the goroutines that stored into t.txSha, in store order

\* The state of sequential use of the handle.
svars == <<t, tx, msgTxMem, shaMem, callerMsgTx, ret, shaReturns, txShaLog,
           lastSetIndex, mutations>>

\* The state of Sha calls that overlap.
ovars == <<calls, txShaHist>>

vars == <<svars, ovars>>

\* The goroutines that each make one Sha call.
Goroutines == 1..MaxOverlap

\* A goroutine that has not entered Sha.  hit: it found t.txSha set; ptr:
\* the goroutine whose `sha` the pointer it returns names (0 for none yet);
\* stores: the stores into t.txSha made before it read the field; overlap:
\* another call was in flight when it read the field; sha: its own local
\* `sha`; val: the hash its caller finds behind the pointer returned.
IdleCall == [pc |-> "start", hit |-> FALSE, ptr |-> 0, stores |-> 0,
             overlap |-> FALSE, sha |-> ZeroSha, val |-> ZeroSha]

\* The zero value of the Tx struct.
ZeroTx == [msgTx |-> NilPtr, serializedTx |-> <<>>, txSha |-> NilPtr, txIndex |-> 0]

ZeroMsgTx == [version |-> 0, items |-> <<>>]

Call(op, arg, val, err) == [op |-> op, arg |-> arg, val |-> val, err |-> err]

Init ==
    /\ t = NilPtr
    /\ tx = ZeroTx
    /\ msgTxMem = ZeroMsgTx
    /\ shaMem = ZeroSha
    /\ callerMsgTx = FALSE
    /\ ret = Call("none", <<>>, <<>>, NoErr)
    /\ shaReturns = <<>>
    /\ txShaLog = <<>>
    /\ lastSetIndex = <<>>
    /\ mutations = 0
    /\ calls = [g \in Goroutines |-> IdleCall]
    /\ txShaHist = <<>>

\* -------------------------------------------------------------- constructors
\* The struct literal of NewTx with txIndex left at its zero value.
NewTxStructZeroIndex(msgTx) ==
    [msgTx |-> msgTx, serializedTx |-> <<>>, txSha |-> NilPtr, txIndex |-> 0]

\* The struct literal of NewTx.
NewTxStruct(msgTx) ==
    [msgTx |-> msgTx, serializedTx |-> <<>>, txSha |-> NilPtr,
     txIndex |-> TxIndexUnknown]

\* NewTx(msgTx): the caller passes a pointer to a record it owns.
NewTx ==
    /\ t = NilPtr
    /\ \E m \in MsgTxs :
         /\ msgTxMem' = m
         /\ tx' = NewTxStruct(MsgTxAddr)
         /\ t' = TxAddr
         /\ callerMsgTx' = TRUE
         /\ ret' = Call("NewTx", m, TxAddr, NoErr)
    /\ UNCHANGED <<shaMem, shaReturns, txShaLog, lastSetIndex, mutations>>

\* The struct literal of NewTxFromBytes without the serializedTx field.
NewTxFromBytesStructNoBytes(msgTx, serializedTx) ==
    [msgTx |-> msgTx, serializedTx |-> <<>>, txSha |-> NilPtr,
     txIndex |-> TxIndexUnknown]

\* The struct literal of NewTxFromBytes.
NewTxFromBytesStruct(msgTx, serializedTx) ==
    [msgTx |-> msgTx, serializedTx |-> serializedTx, txSha |-> NilPtr,
     txIndex |-> TxIndexUnknown]

\* NewTxFromBytes returning an error of its own in place of the decoder's.
NewTxFromBytesReturnWrapped(b, d) ==
    IF d.err # NoErr
    THEN Call("NewTxFromBytes", b, NilPtr, "malformed transaction")
    ELSE Call("NewTxFromBytes", b, TxAddr, NoErr)

\* What NewTxFromBytes returns for the bytes b, given the decoder's result d.
NewTxFromBytesReturn(b, d) ==
    IF d.err # NoErr
    THEN Call("NewTxFromBytes", b, NilPtr, d.err)
    ELSE Call("NewTxFromBytes", b, TxAddr, NoErr)

\* NewTxFromBytes(serializedTx).
NewTxFromBytes ==
    /\ t = NilPtr
    /\ \E b \in SeqsUpTo(MaxLen) :
         LET d == Deserialize(b)
             r == NewTxFromBytesReturn(b, d)
         IN  /\ ret' = r
             /\ t' = r.val
             /\ IF r.val # NilPtr
                THEN /\ msgTxMem' = d.msgTx
                     /\ tx' = NewTxFromBytesStruct(MsgTxAddr, b)
                ELSE UNCHANGED <<msgTxMem, tx>>
    /\ UNCHANGED <<shaMem, callerMsgTx, shaReturns, txShaLog, lastSetIndex,
                   mutations>>

\* ------------------------------------------------------------------ methods
\* t.MsgTx(): hands out the pointer itself.
MsgTx ==
    /\ t # NilPtr
    /\ ret' = Call("MsgTx", <<>>, tx.msgTx, NoErr)
    /\ callerMsgTx' = TRUE
    /\ UNCHANGED <<t, tx, msgTxMem, shaMem, shaReturns, txShaLog, lastSetIndex,
                   mutations>>

\* Whether the hash has already been generated.
ShaCachedNever(h) == FALSE

ShaCached(h) == h.txSha # NilPtr

\* t.msgTx.TxSha() hashing the retained bytes instead of the record.
ShaGenerateFromBytes(h, mem, e) ==
    [sha |-> IF h.serializedTx # <<>> THEN DoubleSha256(h.serializedTx)
                                      ELSE TxShaOf(mem),
     err |-> e]

\* t.msgTx.TxSha(): the pair TxSha returns for the record behind h.msgTx, mem,
\* when its error result is e.
ShaGenerate(h, mem, e) == [sha |-> TxShaOf(mem), err |-> e]

\* t.txSha = &sha, left out.
CacheShaForgotten(h) == h

\* t.txSha = &sha, done by rebuilding the struct from its constructor fields.
CacheShaRebuilt(h) ==
    [msgTx |-> h.msgTx, serializedTx |-> h.serializedTx, txSha |-> ShaAddr,
     txIndex |-> TxIndexUnknown]

\* t.txSha = &sha.
CacheSha(h) == [h EXCEPT !.txSha = ShaAddr]

\* return &sha, handing out the address of a copy of the cached hash.
ShaReturnCopy(r) == "&copy"

\* return &sha, withheld when TxSha reported an error.
ShaReturnChecked(r) == IF r.err # NoErr THEN NilPtr ELSE ShaAddr

\* return &sha: the error half of TxSha's pair r is dropped.
ShaReturn(r) == ShaAddr

\* t.Sha().
Sha ==
    /\ t # NilPtr
    /\ Len(shaReturns) < MaxShaCalls
    /\ IF ShaCached(tx)
       THEN /\ ret' = Call("Sha", <<>>, tx.txSha, NoErr)
            /\ shaReturns' = Append(shaReturns, shaMem)
            /\ UNCHANGED <<tx, shaMem, txShaLog>>
       ELSE \E e \in TxShaErrs :
              LET r == ShaGenerate(tx, msgTxMem, e)
              IN  /\ txShaLog' = Append(txShaLog, r)
                  /\ shaMem' = r.sha
                  /\ tx' = CacheSha(tx)
                  /\ ret' = Call("Sha", <<>>, ShaReturn(r), NoErr)
                  /\ shaReturns' = Append(shaReturns, r.sha)
    /\ UNCHANGED <<t, msgTxMem, callerMsgTx, lastSetIndex, mutations>>

\* return t.txIndex
IndexOf(h) == h.txIndex

\* t.Index().
Index ==
    /\ t # NilPtr
    /\ ret' = Call("Index", <<>>, IndexOf(tx), NoErr)
    /\ UNCHANGED <<t, tx, msgTxMem, shaMem, callerMsgTx, shaReturns, txShaLog,
                   lastSetIndex, mutations>>

\* t.txIndex = index, refusing what is no offset within a block.
SetIndexStoreValidated(h, index) ==
    IF index < 0 THEN h ELSE [h EXCEPT !.txIndex = index]

\* t.txIndex = index, dropping the cached hash along with the old position.
SetIndexStoreInvalidating(h, index) ==
    [h EXCEPT !.txIndex = index, !.txSha = NilPtr]

\* t.txIndex = index
SetIndexStore(h, index) == [h EXCEPT !.txIndex = index]

\* t.SetIndex(index).
SetIndex ==
    /\ t # NilPtr
    /\ \E index \in Indexes :
         /\ tx' = SetIndexStore(tx, index)
         /\ ret' = Call("SetIndex", index, <<>>, NoErr)
         /\ lastSetIndex' = <<index>>
    /\ UNCHANGED <<t, msgTxMem, shaMem, callerMsgTx, shaReturns, txShaLog,
                   mutations>>

\* -------------------------------------------------------------- environment
\* The caller writes the record through the *MsgTx it holds (msgTx.Version = v).
MutateMsgTx ==
    /\ callerMsgTx
    /\ mutations < MaxMutations
    /\ \E v \in Byte \ {msgTxMem.version} :
         msgTxMem' = [msgTxMem EXCEPT !.version = v]
    /\ mutations' = mutations + 1
    /\ ret' = Call("mutate", <<>>, <<>>, NoErr)
    /\ UNCHANGED <<t, tx, shaMem, callerMsgTx, shaReturns, txShaLog, lastSetIndex>>

\* The caller writes a hash through the *ShaHash a Sha call returned to it.
WriteThroughSha ==
    /\ Len(shaReturns) >= 1
    /\ mutations < MaxMutations
    /\ \E h \in (0..(HashSpace - 1)) \ {shaMem} :
         /\ shaMem' = h
         /\ ret' = Call("write", h, <<>>, NoErr)
    /\ mutations' = mutations + 1
    /\ UNCHANGED <<t, tx, msgTxMem, callerMsgTx, shaReturns, txShaLog,
                   lastSetIndex>>

\* Sequential use: one call at a time, each running to its return.
Next ==
    \/ NewTx /\ UNCHANGED ovars
    \/ NewTxFromBytes /\ UNCHANGED ovars
    \/ MsgTx /\ UNCHANGED ovars
    \/ Sha /\ UNCHANGED ovars
    \/ Index /\ UNCHANGED ovars
    \/ SetIndex /\ UNCHANGED ovars
    \/ MutateMsgTx /\ UNCHANGED ovars

Spec == Init /\ [][Next]_vars

\* Use in which the caller keeps and writes through the pointers Sha returns.
NextAlias ==
    \/ NewTx /\ UNCHANGED ovars
    \/ NewTxFromBytes /\ UNCHANGED ovars
    \/ Sha /\ UNCHANGED ovars
    \/ SetIndex /\ UNCHANGED ovars
    \/ WriteThroughSha /\ UNCHANGED ovars

SpecAlias == Init /\ [][NextAlias]_vars

\* ------------------------------------------------------- overlapping calls
\* Sha holds no lock and uses no atomic operation, so calls on goroutines of
\* their own race on t.txSha and on the `sha` it points to.  Each call is its
\* three memory steps; a load that no synchronization orders after a store
\* may or may not observe that store.

\* The stores into t.txSha that a plain load may observe once the stores of
\* hist have been made: the nil of construction (0) or any of them.
TxShaLoads(hist) == 0..Len(hist)

\* The pointer that store k of hist put into t.txSha: the address of the
\* storing goroutine's `sha`, or nil for the constructor's.
TxShaStored(hist, k) == IF k = 0 THEN 0 ELSE hist[k]

\* What a goroutine may find behind a pointer to goroutine p's `sha` when it
\* took the pointer from a plain load: the hash p stored there, or the zeroed
\* allocation the hash was stored into.
ShaLoads(cs, p) == {cs[p].sha, ZeroSha}

\* Whether a call other than g's is between its entry and its return.
InFlight(cs, g) ==
    \E o \in Goroutines \ {g} : cs[o].pc \in {"compute", "write", "return"}

\* if t.txSha != nil on goroutine g.
ShaReadCache(g) ==
    /\ t # NilPtr
    /\ calls[g].pc = "start"
    /\ \E k \in TxShaLoads(txShaHist) :
         LET p == TxShaStored(txShaHist, k)
         IN  calls' = [calls EXCEPT ![g] =
                         [pc |-> IF p # 0 THEN "return" ELSE "compute",
                          hit |-> p # 0, ptr |-> p,
                          stores |-> Len(txShaHist),
                          overlap |-> InFlight(calls, g),
                          sha |-> ZeroSha, val |-> ZeroSha]]
    /\ UNCHANGED <<svars, txShaHist>>

\* sha, _ := t.msgTx.TxSha() on goroutine g.
ShaComputeHash(g) ==
    /\ calls[g].pc = "compute"
    /\ \E e \in TxShaErrs :
         LET r == ShaGenerate(tx, msgTxMem, e)
         IN  /\ txShaLog' = Append(txShaLog, r)
             /\ calls' = [calls EXCEPT ![g].pc = "write", ![g].sha = r.sha]
    /\ UNCHANGED <<t, tx, msgTxMem, shaMem, callerMsgTx, ret, shaReturns,
                   lastSetIndex, mutations, txShaHist>>

\* t.txSha = &sha on goroutine g.  ShaAddr in tx.txSha stands for the
\* address of the `sha` of the last goroutine of txShaHist.
ShaWriteCache(g) ==
    /\ calls[g].pc = "write"
    /\ tx' = CacheSha(tx)
    /\ shaMem' = calls[g].sha
    /\ txShaHist' = Append(txShaHist, g)
    /\ calls' = [calls EXCEPT ![g].pc = "return", ![g].ptr = g]
    /\ UNCHANGED <<t, msgTxMem, callerMsgTx, ret, shaReturns, txShaLog,
                   lastSetIndex, mutations>>

\* return t.txSha / return &sha on goroutine g, and the caller's read of
\* the hash behind the pointer: its own `sha`, or another goroutine's.
ShaReturnTo(g) ==
    /\ calls[g].pc = "return"
    /\ \E v \in (IF calls[g].ptr = g THEN {calls[g].sha}
                                    ELSE ShaLoads(calls, calls[g].ptr)) :
         calls' = [calls EXCEPT ![g].pc = "done", ![g].val = v]
    /\ UNCHANGED <<svars, txShaHist>>

\* Overlapping use: a handle is constructed, then every goroutine calls Sha;
\* the record is not written.
NextOverlap ==
    \/ NewTx /\ UNCHANGED ovars
    \/ NewTxFromBytes /\ UNCHANGED ovars
    \/ \E g \in Goroutines : ShaReadCache(g)
    \/ \E g \in Goroutines : ShaComputeHash(g)
    \/ \E g \in Goroutines : ShaWriteCache(g)
    \/ \E g \in Goroutines : ShaReturnTo(g)

SpecOverlap == Init /\ [][NextOverlap]_vars

\* ------------------------------------------------------------------ claims
\* The hash behind the pointer the latest Sha call returned.
LastSha == shaReturns[Len(shaReturns)]

\* The cached hash no longer matches the record: the record was written after
\* the hash was generated.
CacheStale == tx.txSha # NilPtr /\ shaMem # TxShaOf(msgTxMem)

\* C1: every Sha call on the handle returns the hash the first Sha call
\* returned, whatever Index, SetIndex, MsgTx calls and record writes lie between.
C1_ShaSameAsFirst ==
    \A i \in 1..Len(shaReturns) : shaReturns[i] = shaReturns[1]

\* C1 witness: Sha has just returned for at least the second time, after the
\* record was changed to one that hashes differently.
C1_Witness ==
    /\ ret.op = "Sha"
    /\ Len(shaReturns) >= 2
    /\ CacheStale

\* C2: TxSha is invoked exactly once by the first Sha call and never by a
\* later Sha call or by any other operation.
C2_TxShaAtMostOnce ==
    Len(txShaLog) = (IF Len(shaReturns) >= 1 THEN 1 ELSE 0)

\* C2 witness: after construction from bytes, a SetIndex and several Sha
\* calls, TxSha has run once.
C2_Witness ==
    /\ Len(shaReturns) = MaxShaCalls
    /\ Len(txShaLog) = 1
    /\ tx.serializedTx # <<>>
    /\ lastSetIndex # <<>>

\* C3 (as claimed): every Sha call returns the hash TxSha gives for the record
\* behind MsgTx() at the time of that call.
C3_ShaEqualsTxShaNow ==
    ret.op = "Sha" => LastSha = TxShaOf(msgTxMem)

\* C4: for bytes decoding to a record R, the handle NewTxFromBytes builds wraps
\* a record hashing to hash(R), and Sha returns hash(R), whatever Index and
\* SetIndex calls come first (the record not having been written).
C4_FromBytesHash ==
    (t # NilPtr /\ tx.serializedTx # <<>> /\ mutations = 0) =>
        LET R == Deserialize(tx.serializedTx).msgTx
        IN  /\ TxShaOf(msgTxMem) = TxShaOf(R)
            /\ \A i \in 1..Len(shaReturns) : shaReturns[i] = TxShaOf(R)

\* C4 witness: Sha has just returned on an unwritten handle built from bytes
\* that run past the encoded record, after a SetIndex.
C4_Witness ==
    /\ ret.op = "Sha"
    /\ mutations = 0
    /\ lastSetIndex # <<>>
    /\ Len(tx.serializedTx) > Len(Serialize(msgTxMem))

\* C5: until the first SetIndex, the handle of either constructor holds, and
\* Index returns, TxIndexUnknown.
C5_UnknownUntilSet ==
    (t # NilPtr /\ lastSetIndex = <<>>) =>
        /\ tx.txIndex = TxIndexUnknown
        /\ ret.op = "Index" => ret.val = TxIndexUnknown

\* C5 witness: Index has just returned on a handle never given an index, after
\* Sha calls and a write to the record.
C5_Witness ==
    /\ ret.op = "Index"
    /\ lastSetIndex = <<>>
    /\ Len(shaReturns) >= 1
    /\ mutations >= 1

\* C6: SetIndex takes any integer without error, and Index returns the
\* argument of the latest SetIndex whatever Sha and MsgTx calls lie between.
C6_LastSetIndexWins ==
    /\ ret.op = "SetIndex" => (ret.err = NoErr /\ tx.txIndex = ret.arg)
    /\ lastSetIndex # <<>> =>
         /\ tx.txIndex = lastSetIndex[1]
         /\ ret.op = "Index" => ret.val = lastSetIndex[1]

\* C6 witness: Index has just returned a negative index that is not the
\* sentinel, on a handle whose hash has been generated.
C6_Witness ==
    /\ ret.op = "Index"
    /\ lastSetIndex # <<>>
    /\ ret.val < TxIndexUnknown
    /\ tx.txSha # NilPtr

\* C7: NewTxFromBytes returns the decoder's error as it is, with a nil
\* handle and nothing allocated; it returns a handle exactly when the error
\* is nil.
C7_DecodeErrorVerbatim ==
    ret.op = "NewTxFromBytes" =>
        /\ ret.err = Deserialize(ret.arg).err
        /\ (ret.val = NilPtr) <=> (ret.err # NoErr)
        /\ t = ret.val
        /\ ret.err # NoErr => tx = ZeroTx

\* C7 witness: NewTxFromBytes has just refused the one byte 0x00.
C7_Witness ==
    /\ ret.op = "NewTxFromBytes"
    /\ ret.arg = <<0>>
    /\ ret.err = "unexpected EOF"
    /\ t = NilPtr

\* C8 (as claimed): once the handle exists, txIndex is the only field that
\* ever changes, and it changes only in a SetIndex step.
C8_OnlyIndexChanges ==
    [][(t # NilPtr /\ tx' # tx) =>
          /\ ret'.op = "SetIndex"
          /\ tx' = [tx EXCEPT !.txIndex = tx'.txIndex]]_vars

\* C8 (amended): once the handle exists, msgTx and serializedTx never change,
\* txIndex changes only in a SetIndex step, and txSha changes only in the Sha
\* step that finds it nil and sets it; no step changes two fields.
C8_FieldsChangeOnlyByOwner ==
    [][(t # NilPtr /\ tx' # tx) =>
          \/ /\ ret'.op = "SetIndex"
             /\ tx' = [tx EXCEPT !.txIndex = tx'.txIndex]
          \/ /\ ret'.op = "Sha"
             /\ tx.txSha = NilPtr
             /\ tx' = [tx EXCEPT !.txSha = ShaAddr]]_vars

\* C8 witness: a handle whose index was set before its hash was generated,
\* and which still holds that index.
C8_Witness ==
    /\ ret.op = "Sha"
    /\ Len(shaReturns) = 1
    /\ lastSetIndex # <<>>
    /\ tx.txIndex # TxIndexUnknown
    /\ tx.txSha = ShaAddr

\* C9: only NewTxFromBytes has an error outcome; NewTx yields a handle, and
\* Sha yields a pointer to TxSha's hash even when TxSha reported an error.
C9_OnlyDecodeFails ==
    /\ ret.err # NoErr => ret.op = "NewTxFromBytes"
    /\ ret.op = "NewTx" => ret.val = TxAddr
    /\ ret.op = "Sha" =>
         /\ ret.val = ShaAddr
         /\ LastSha = txShaLog[Len(txShaLog)].sha

\* C9 witness: Sha has just returned a hash although TxSha reported an error.
C9_Witness ==
    /\ ret.op = "Sha"
    /\ txShaLog[Len(txShaLog)].err # NoErr
    /\ ret.val = ShaAddr

\* C10: txSha is nil from construction until the first Sha call, which sets
\* it; from then on neither the pointer nor the hash behind it changes,
\* whatever is called and whatever is written to the record.
C10_CacheLifecycle ==
    /\ [](t # NilPtr => (tx.txSha = NilPtr <=> Len(shaReturns) = 0))
    /\ [][t # NilPtr =>
            /\ tx.txSha # NilPtr => (tx'.txSha = tx.txSha /\ shaMem' = shaMem)
            /\ (tx.txSha = NilPtr /\ tx'.txSha # NilPtr) => ret'.op = "Sha"
            /\ (tx.txSha = NilPtr /\ ret'.op = "Sha") => tx'.txSha # NilPtr]_vars

\* C10 witness: the cache outlived a write to the record and a later
\* SetIndex, still holding the hash of the record as it was.
C10_Witness ==
    /\ ret.op = "SetIndex"
    /\ mutations >= 1
    /\ CacheStale

\* C11 (as claimed): when Sha calls overlap on a handle whose record is not
\* written, every call returns hash(record), every store into the cache is of
\* that hash, and a call finds the cache unset only if no call had stored
\* into it yet, so that TxSha runs again only in calls that overlap the first.
C11_OverlapBenign ==
    /\ \A g \in Goroutines :
         (calls[g].pc = "done" /\ calls[g].overlap) =>
             calls[g].val = TxShaOf(msgTxMem)
    /\ \A k \in 1..Len(txShaHist) :
         calls[txShaHist[k]].sha = TxShaOf(msgTxMem)
    /\ \A g \in Goroutines :
         (calls[g].pc # "start" /\ calls[g].overlap /\ ~calls[g].hit) =>
             calls[g].stores = 0

\* C12: right after either constructor txSha is nil and TxSha has not run;
\* serializedTx is empty after NewTx and is the input slice after
\* NewTxFromBytes; and no later step on the handle changes serializedTx.
C12_FreshHandle ==
    /\ []((t # NilPtr /\ ret.op \in {"NewTx", "NewTxFromBytes"}) =>
            /\ tx.txSha = NilPtr
            /\ txShaLog = <<>>
            /\ shaReturns = <<>>
            /\ ret.op = "NewTx" => tx.serializedTx = <<>>
            /\ ret.op = "NewTxFromBytes" => tx.serializedTx = ret.arg)
    /\ [][t # NilPtr => tx'.serializedTx = tx.serializedTx]_vars

\* C12 witness: NewTxFromBytes has just returned a handle for bytes that run
\* past the encoded record.
C12_Witness ==
    /\ ret.op = "NewTxFromBytes"
    /\ t # NilPtr
    /\ Len(ret.arg) > Len(Serialize(msgTxMem))

\* C13: a SetIndex step changes no field but txIndex, neither the record nor
\* the cached hash, and does not run TxSha; a Sha step leaves txIndex as it
\* was; an Index or MsgTx step changes no field, record or hash.
C13_HashAndIndexIndependent ==
    [][t # NilPtr =>
          /\ ret'.op = "SetIndex" =>
                /\ tx' = [tx EXCEPT !.txIndex = tx'.txIndex]
                /\ msgTxMem' = msgTxMem
                /\ shaMem' = shaMem
                /\ txShaLog' = txShaLog
          /\ ret'.op = "Sha" => tx'.txIndex = tx.txIndex
          /\ ret'.op \in {"Index", "MsgTx"} =>
                /\ tx' = tx
                /\ msgTxMem' = msgTxMem
                /\ shaMem' = shaMem
                /\ txShaLog' = txShaLog]_vars

\* C13 witness: Sha has returned again on a handle whose index was set, the
\* index in place and TxSha run once.
C13_Witness ==
    /\ ret.op = "Sha"
    /\ Len(shaReturns) >= 2
    /\ lastSetIndex # <<>>
    /\ tx.txIndex = lastSetIndex[1]
    /\ Len(txShaLog) = 1

\* C14: every Sha call returns the pointer held in t.txSha, the same one each
\* time, so what it returns is what that cell now holds: after the caller
\* writes through a returned pointer, Sha returns the hash written, and
\* TxSha is not run again.
C14_ShaReturnsTheCell ==
    /\ [](ret.op = "Sha" =>
            /\ ret.val = ShaAddr
            /\ ret.val = tx.txSha
            /\ LastSha = shaMem)
    /\ [](Len(txShaLog) <= 1)
    /\ [][(ret.op = "write" /\ ret'.op = "Sha") =>
            /\ shaReturns' = Append(shaReturns, ret.arg)
            /\ txShaLog' = txShaLog]_vars

\* C14 witness: Sha has just returned a hash that the caller wrote through an
\* earlier returned pointer and that is not the hash of the record.
C14_Witness ==
    /\ ret.op = "Sha"
    /\ mutations >= 1
    /\ Len(shaReturns) >= 2
    /\ LastSha # shaReturns[1]
    /\ LastSha # TxShaOf(msgTxMem)

=============================================================================
